---- MODULE Spec2Model ----
(***************************************************************************)
(* A model of pytfe (src/pytfe/app.py): declaration entities (Item and its *)
(* typed subclasses), the Plan aggregator with its per-kind storage, plan  *)
(* merging, and the text renderings of a plan.                             *)
(*                                                                         *)
(* Python objects are modelled with reference semantics: every per-kind    *)
(* container of a plan (a Block mapping or a list) lives in `heap` and a   *)
(* plan's kwds maps a kind to a heap reference, so two plans may come to   *)
(* hold the same container object.                                         *)
(*                                                                         *)
(* A text is modelled as the sequence of its lines (text.split("\n")):     *)
(* the empty text is <<"">>.                                               *)
(***************************************************************************)
EXTENDS Naturals, Sequences, FiniteSets, TLC

\* Number of operations performed on the plans in one behaviour.
MaxOps == 3

-----------------------------------------------------------------------------
(* Values: every Python value carries its class.                           *)

Str(s) == [cls |-> "str", value |-> s]

\* The typed subclasses of BaseItem and their class attribute `type`.
ItemType(cls) ==
  CASE cls = "Provider"    -> "provider"
    [] cls = "Resource"    -> "resource"
    [] cls = "Output"      -> "output"
    [] cls = "Locals"      -> "locals"
    [] cls = "Module"      -> "module"
    [] cls = "Provisioner" -> "provisioner"
    [] cls = "Function"    -> "function"
    [] cls = "Variable"    -> "variable"
    [] cls = "Connection"  -> "connection"
    [] cls = "Backend"     -> "backend"
    [] cls = "Data"        -> "data"
    [] cls = "Terraform"   -> "terraform"

ItemClasses ==
  {"Item", "Provider", "Resource", "Output", "Locals", "Module", "Provisioner",
   "Function", "Variable", "Connection", "Backend", "Data", "Terraform"}

\* isinstance(v, Item)
isinstance_Item(v) == v.cls \in ItemClasses

\* isinstance(v, (Item, TFBlock))
isinstance_Item_or_TFBlock(v) == isinstance_Item(v) \/ v.cls = "TFBlock"

IsChild(v) == isinstance_Item_or_TFBlock(v)
IsLabel(v) == ~isinstance_Item_or_TFBlock(v)

\* Item.__init__ with items holding the entities only: a raw-text block is
\* neither in args nor in items.
Item__init__EntitiesOnly(cls, item_type, all_args, kwds) ==
  [cls      |-> cls,
   type     |-> item_type,
   args     |-> SelectSeq(all_args, IsLabel),
   all_args |-> all_args,
   kwds     |-> kwds,
   items    |-> SelectSeq(all_args, isinstance_Item)]

\* Item.__init__: args and items partition the constructor arguments.
Item__init__(cls, item_type, all_args, kwds) ==
  [cls      |-> cls,
   type     |-> item_type,
   args     |-> SelectSeq(all_args, IsLabel),
   all_args |-> all_args,
   kwds     |-> kwds,
   items    |-> SelectSeq(all_args, IsChild)]

\* BaseItem.__init__: the kind is the subclass's `type`.
BaseItem(cls, all_args, kwds) == Item__init__(cls, ItemType(cls), all_args, kwds)

\* TFBlock(value): a raw-text block, which is not an Item. Its text is a
\* sequence of lines, each Line(ind, body): ind leading spaces, then body.
TFBlock(value) == [cls |-> "TFBlock", value |-> value]

Line(ind, body) == [ind |-> ind, body |-> body]

\* Attribute(text): the reference token, a str subclass.
Attribute(s) == [cls |-> "Attribute", value |-> s]

\* The other values a named or positional argument may be.
Int(n) == [cls |-> "int", value |-> n]
Bool(b) == [cls |-> "bool", value |-> b]
Raw(s) == [cls |-> "Raw", value |-> s]
Quote(s) == [cls |-> "Quote", value |-> s]
List(elems) == [cls |-> "list", value |-> elems]
Dict(entries) == [cls |-> "dict", value |-> entries]

\* isinstance(v, C) for the classes the formatters dispatch on.
isinstance_str(v) == v.cls \in {"str", "Attribute"}
isinstance_dict(v) == v.cls = "dict"
isinstance_list(v) == v.cls = "list"
isinstance_Function(v) == v.cls = "Function"
isinstance_Variable(v) == v.cls = "Variable"
isinstance_Connection_or_Backend(v) == v.cls \in {"Connection", "Backend"}

\* Plan(): as a value handed to an operation (only its class matters there).
PlanValue == [cls |-> "Plan"]

-----------------------------------------------------------------------------
(* Python's insertion-ordered dict, as a sequence of [key, val] entries.   *)

DictKeys(d) == {d[i].key : i \in 1..Len(d)}

\* key in d
DictHas(d, k) == k \in DictKeys(d)

DictIndex(d, k) == CHOOSE i \in 1..Len(d) : d[i].key = k

\* d[key]
DictGet(d, k) == d[DictIndex(d, k)].val

\* d[key] = val, moving a re-assigned key to the end (not what dict does).
DictSetMoveToEnd(d, k, v) ==
  Append(SelectSeq(d, LAMBDA e : e.key # k), [key |-> k, val |-> v])

\* d[key] = val: a present key keeps its position, a new key goes last.
DictSet(d, k, v) ==
  IF DictHas(d, k)
    THEN [d EXCEPT ![DictIndex(d, k)] = [key |-> k, val |-> v]]
    ELSE Append(d, [key |-> k, val |-> v])

\* list(d.values())
DictValues(d) == [i \in 1..Len(d) |-> d[i].val]

RECURSIVE DictUpdate(_, _)
\* d.update(**e): every entry of e is assigned into d, in e's order.
DictUpdate(d, e) ==
  IF e = <<>> THEN d
  ELSE DictUpdate(DictSet(d, Head(e).key, Head(e).val), Tail(e))

-----------------------------------------------------------------------------
(* Texts as sequences of lines.                                            *)

EmptyText == <<"">>

RECURSIVE JoinStr(_)
\* "".join(parts)
JoinStr(parts) ==
  IF parts = <<>> THEN "" ELSE Head(parts) \o JoinStr(Tail(parts))

RECURSIVE JoinBlank(_)
\* "\n\n".join(texts): one blank line between consecutive texts.
JoinBlank(texts) ==
  IF texts = <<>> THEN EmptyText
  ELSE IF Len(texts) = 1 THEN texts[1]
  ELSE texts[1] \o <<"">> \o JoinBlank(Tail(texts))

RECURSIVE LStripNewlines(_)
LStripNewlines(t) ==
  IF Len(t) > 1 /\ t[1] = "" THEN LStripNewlines(Tail(t)) ELSE t

RECURSIVE RStripNewlines(_)
RStripNewlines(t) ==
  IF Len(t) > 1 /\ t[Len(t)] = ""
    THEN RStripNewlines(SubSeq(t, 1, Len(t) - 1)) ELSE t

\* text.strip("\n")
StripNewlines(t) == RStripNewlines(LStripNewlines(t))

\* The indentation unit.
IDENTATION == "  "

\* textwrap.indent(text, prefix): lines holding only whitespace get no prefix.
Indent(t, prefix) ==
  [i \in 1..Len(t) |-> IF t[i] \in {"", " ", "  "} THEN t[i] ELSE prefix \o t[i]]

RECURSIVE Spaces(_)
Spaces(n) == IF n = 0 THEN "" ELSE " " \o Spaces(n - 1)

\* The least indentation of the lines of a template that hold text, 0 if
\* none does: the margin textwrap.dedent removes.
Margin(lines) ==
  LET inds == {lines[i].ind : i \in {k \in 1..Len(lines) : lines[k].body # ""}}
  IN  IF inds = {} THEN 0 ELSE CHOOSE m \in inds : \A n \in inds : m <= n

\* textwrap.dedent(value): the margin is removed, blank lines become empty.
dedent(lines) ==
  [i \in 1..Len(lines) |->
     IF lines[i].body = "" THEN ""
     ELSE Spaces(lines[i].ind - Margin(lines)) \o lines[i].body]

\* value.startswith("\n")
StartsWithNewline(lines) == Len(lines) > 1 /\ lines[1] = Line(0, "")

\* TFBlock.format: the dedented text, without its first newline when the
\* template starts with one.
TFBlock_format(v) ==
  IF StartsWithNewline(v.value) THEN Tail(dedent(v.value)) ELSE dedent(v.value)

\* TFBlock.__str__
TFBlock__str__(v) == TFBlock_format(v)

\* TFBlock.__eq__(self, other)
TFBlock__eq__(v, other) ==
  IF isinstance_str(other) THEN TFBlock__str__(v) = other.value ELSE FALSE

\* Item.__str__ / Item.__repr__: the class name twice.
Item__str__(item) == Attribute(item.cls \o "." \o item.cls)

\* str(v) of a value put in an f-string, as one line.
str(v) ==
  CASE v.cls \in {"str", "Attribute", "Raw"} -> v.value
    [] v.cls = "Quote" -> "\"" \o v.value \o "\""
    [] v.cls = "int" -> ToString(v.value)
    [] v.cls = "bool" -> IF v.value THEN "True" ELSE "False"
    [] isinstance_Item(v) -> Item__str__(v).value

RECURSIVE FlattenTexts(_)
\* "\n".join(texts)
FlattenTexts(ts) == IF ts = <<>> THEN <<>> ELSE Head(ts) \o FlattenTexts(Tail(ts))

\* s + t for two texts: the last line of s runs on into the first of t.
ConcatText(s, t) ==
  SubSeq(s, 1, Len(s) - 1) \o <<s[Len(s)] \o t[1]>> \o Tail(t)

RECURSIVE JoinWith(_, _)
\* sep.join(texts) for a one-line separator
JoinWith(sep, texts) ==
  IF texts = <<>> THEN EmptyText
  ELSE IF Len(texts) = 1 THEN texts[1]
  ELSE ConcatText(ConcatText(texts[1], <<sep>>), JoinWith(sep, Tail(texts)))

RECURSIVE JoinCommaNewline(_)
\* ",\n".join(texts)
JoinCommaNewline(texts) ==
  IF texts = <<>> THEN EmptyText
  ELSE IF Len(texts) = 1 THEN texts[1]
  ELSE ConcatText(texts[1], <<",">>) \o JoinCommaNewline(Tail(texts))

\* The arguments format_function has a branch for.
FunctionArgHandled(arg) ==
  \/ isinstance_Function(arg) \/ isinstance_str(arg) \/ isinstance_dict(arg)
  \/ isinstance_list(arg) \/ isinstance_Item(arg)

RECURSIVE Item_format(_), format_any_obj(_, _), format_dict(_), format_list(_)
RECURSIVE format_function(_), format_function_args(_, _), format_method(_)

\* format_list that writes an empty list as a pair of brackets.
format_list_EmptyPair(lst) ==
  IF lst = <<>> THEN <<"[]">>
  ELSE <<"[">>
         \o JoinCommaNewline([i \in 1..Len(lst) |->
                                Indent(format_any_obj("", lst[i]), IDENTATION)])
         \o <<"]">>

\* Item.format that writes the named arguments before the child blocks.
Item_format_NamedFirst(item) ==
  LET start_block ==
        item.type \o JoinStr([i \in 1..Len(item.args) |->
                                " \"" \o str(item.args[i]) \o "\""])
      children == [i \in 1..Len(item.items) |->
                     Indent(format_method(item.items[i]), IDENTATION)]
      body == [i \in 1..Len(item.kwds) |->
                 Indent(format_any_obj(item.kwds[i].key, item.kwds[i].val),
                        IDENTATION)]
  IN  <<start_block \o " {">> \o FlattenTexts(body) \o FlattenTexts(children) \o <<"}">>

\* value.format(), by the class of value.
format_method(v) ==
  IF v.cls = "TFBlock" THEN TFBlock_format(v)
  ELSE IF isinstance_Function(v) THEN format_function(v)
  ELSE Item_format(v)

\* The loop of format_function over all_args[1:]: `result` keeps the text of
\* the previous argument when no branch matches the current one.
format_function_args(args, result) ==
  IF args = <<>> THEN <<>>
  ELSE LET arg == Head(args)
           r == IF isinstance_Function(arg) THEN format_function(arg)
                ELSE IF isinstance_str(arg) THEN <<str(arg)>>
                ELSE IF isinstance_dict(arg) THEN format_dict(arg.value)
                ELSE IF isinstance_list(arg) THEN format_list(arg.value)
                ELSE IF isinstance_Item(arg) THEN format_method(arg)
                ELSE result
       IN  <<r>> \o format_function_args(Tail(args), r)

\* format_function(value): name(arg, ..., {named arguments}).
format_function(value) ==
  LET lines_inside ==
        format_function_args(Tail(value.all_args), EmptyText)
          \o (IF value.kwds # <<>> THEN <<format_dict(value.kwds)>> ELSE <<>>)
  IN  ConcatText(ConcatText(<<str(value.args[1]) \o "(">>, JoinWith(", ", lines_inside)),
                 <<")">>)

\* format_any_obj(key, value); its indent parameter has no effect.
format_any_obj(key, value) ==
  LET temp_value ==
        IF isinstance_Connection_or_Backend(value) THEN format_method(value)
        ELSE IF isinstance_Function(value) THEN format_method(value)
        ELSE IF isinstance_Variable(value) THEN <<"var." \o str(value.args[1])>>
        ELSE IF isinstance_Item(value) THEN format_method(value)
        ELSE IF isinstance_dict(value) THEN format_dict(value.value)
        ELSE IF isinstance_list(value) THEN format_list(value.value)
        ELSE IF value.cls = "Raw" THEN <<str(value)>>
        ELSE IF value.cls = "Quote" THEN <<str(value)>>
        ELSE IF value.cls = "bool" THEN <<IF value.value THEN "true" ELSE "false">>
        ELSE IF value.cls = "TFBlock" THEN TFBlock__str__(value)
        ELSE <<str(value)>>
      return_as_map == ~isinstance_Connection_or_Backend(value)
  IN  IF key # "" /\ return_as_map
        THEN ConcatText(<<key \o " = ">>, temp_value)
        ELSE temp_value

\* format_dict(dct): braces around one indented entry per key.
format_dict(dct) ==
  <<"{">>
    \o FlattenTexts([i \in 1..Len(dct) |->
                       Indent(format_any_obj(dct[i].key, dct[i].val), IDENTATION)])
    \o <<"}">>

\* format_list(lst): brackets around the indented elements joined by ",\n".
format_list(lst) ==
  <<"[">>
    \o JoinCommaNewline([i \in 1..Len(lst) |->
                           Indent(format_any_obj("", lst[i]), IDENTATION)])
    \o <<"]">>

\* Item.format: header, the child blocks, the named arguments, closing brace.
Item_format(item) ==
  LET start_block ==
        item.type \o JoinStr([i \in 1..Len(item.args) |->
                                " \"" \o str(item.args[i]) \o "\""])
      children == [i \in 1..Len(item.items) |->
                     Indent(format_method(item.items[i]), IDENTATION)]
      body == [i \in 1..Len(item.kwds) |->
                 Indent(format_any_obj(item.kwds[i].key, item.kwds[i].val),
                        IDENTATION)]
  IN  <<start_block \o " {">> \o FlattenTexts(children) \o FlattenTexts(body) \o <<"}">>

-----------------------------------------------------------------------------
(* The values handed to the plans' operations.                             *)

Kwds(v) == <<[key |-> "x", val |-> Str(v)]>>

Labels(ls) == [i \in 1..Len(ls) |-> Str(ls[i])]

Entity(cls, ls, v) == BaseItem(cls, Labels(ls), Kwds(v))

\* Entities of the kinds a plan renders, with and without labels; two
\* resources share their first label, and two entities differ only in content.
Entities ==
  { Entity("Terraform", <<>>, "1"),
    Entity("Provider", <<"p">>, "1"),
    Entity("Locals", <<>>, "1"),
    Entity("Resource", <<"f", "a">>, "1"),
    Entity("Resource", <<"f", "a">>, "2"),
    Entity("Resource", <<"f", "b">>, "1"),
    Entity("Resource", <<>>, "1"),
    Entity("Module", <<"m">>, "1"),
    Entity("Variable", <<"v">>, "1"),
    Entity("Variable", <<"w">>, "1"),
    Entity("Output", <<"o">>, "1"),
    Entity("Output", <<"q">>, "1"),
    Entity("Data", <<"d", "a">>, "1") }

\* Values that are not entities: a raw-text block, a string, a plan.
NonEntities == { TFBlock(<<Line(0, "x = 1")>>), Str("resource"), PlanValue }

\* Values that are not plans: an entity, a string.
NonPlans == { Entity("Locals", <<>>, "1"), Str("plan") }

\* isinstance(v, Plan)
isinstance_Plan(v) == v.cls = "Plan"

\* The two Plan objects of a behaviour.
Plans == {"A", "B"}

-----------------------------------------------------------------------------
(* State.                                                                  *)

VARIABLES
  kwds,   \* kwds[p]: Plan.kwds of plan p, an ordered dict kind -> heap reference
  heap,   \* the per-kind containers: [form |-> "dict" | "list", entries |-> ...]
  last,   \* the operation performed last and the error it raised ("none" if none)
  old,    \* kwds and heap as they were before the last operation
  nops,   \* number of operations performed
  call    \* the last call of a function of the entity and value layer

vars == <<kwds, heap, last, old, nops, call>>

planVars == <<kwds, heap, last, old, nops>>

\* The state an operation works on.
Here == [kwds |-> kwds, heap |-> heap]

Ok(k, h) == [kwds |-> k, heap |-> h, err |-> "none"]

Raise(st, e) == [kwds |-> st.kwds, heap |-> st.heap, err |-> e]

-----------------------------------------------------------------------------
(* Plan.                                                                   *)

\* _unpack(obj) in Plan.items: the values of a mapping, or the list itself.
unpack(c) == IF c.form = "dict" THEN DictValues(c.entries) ELSE c.entries

RECURSIVE chain(_)
\* itertools.chain(*nested)
chain(nested) == IF nested = <<>> THEN <<>> ELSE Head(nested) \o chain(Tail(nested))

\* Plan.items of a plan whose kwds is k, in heap h.
ItemsIn(k, h) == chain([i \in 1..Len(k) |-> unpack(h[k[i].val])])

\* Plan.items
Plan_items(p) == ItemsIn(kwds[p], heap)

\* `raise ValueError` without the raise: the value is silently ignored.
NotAnItemSilent(st) == Raise(st, "none")

\* Plan.__iadd__ given a value that is not an Item.
NotAnItem(st) == Raise(st, "ValueError")

\* The assignment written as setdefault: an existing key keeps its entity.
StoreLabelledKeepFirst(st, ref, item) ==
  IF st.heap[ref].form = "dict"
    THEN IF DictHas(st.heap[ref].entries, item.args[1])
           THEN Ok(st.kwds, st.heap)
           ELSE Ok(st.kwds, [st.heap EXCEPT ![ref].entries = DictSet(@, item.args[1], item)])
    ELSE Raise(st, "TypeError")

\* self.kwds[item.type][item.args[0]] = item
\* On a list this is list.__setitem__ with a str index: TypeError.
StoreLabelled(st, ref, item) ==
  IF st.heap[ref].form = "dict"
    THEN Ok(st.kwds, [st.heap EXCEPT ![ref].entries = DictSet(@, item.args[1], item)])
    ELSE Raise(st, "TypeError")

\* self.kwds[item.type].append(item)
\* On a Block this is Block.__getattr__("append"): AttributeError.
StoreUnlabelled(st, ref, item) ==
  IF st.heap[ref].form = "list"
    THEN Ok(st.kwds, [st.heap EXCEPT ![ref].entries = Append(@, item)])
    ELSE Raise(st, "AttributeError")

\* The container Plan.__iadd__ creates for a kind not yet in self.kwds.
NewContainer(item) ==
  [form |-> IF item.args = <<>> THEN "list" ELSE "dict", entries |-> <<>>]

\* Plan.__iadd__(self, item), self being plan p.
Plan__iadd__(st, p, item) ==
  IF ~isinstance_Item(item) THEN NotAnItem(st)
  ELSE
    LET reg ==
          IF ~DictHas(st.kwds[p], item.type)
            THEN [kwds |-> [st.kwds EXCEPT ![p] = DictSet(@, item.type, Len(st.heap) + 1)],
                  heap |-> Append(st.heap, NewContainer(item))]
            ELSE st
        ref == DictGet(reg.kwds[p], item.type)
    IN  IF item.args # <<>>
          THEN StoreLabelled(reg, ref, item)
          ELSE StoreUnlabelled(reg, ref, item)

\* Plan.add(self, item)
Plan_add(st, p, item) == Plan__iadd__(st, p, item)

\* Plan.update given a non-plan, without the final raise.
NotAPlanSilent(st) == Raise(st, "none")

\* Plan.update given a value that is not a Plan: `raise Exception(...)`.
NotAPlan(st) == Raise(st, "Exception")

\* self.kwds[k].update(**plan.kwds[k]): ** needs str keys, and a list has
\* no update method.
UpdateMapping(st, p, k, src) ==
  LET tref == DictGet(st.kwds[p], k)
  IN  IF \E i \in 1..Len(src.entries) : src.entries[i].key.cls # "str"
        THEN Raise(st, "TypeError")
      ELSE IF st.heap[tref].form # "dict"
        THEN Raise(st, "AttributeError")
      ELSE Ok(st.kwds, [st.heap EXCEPT ![tref].entries = DictUpdate(@, src.entries)])

\* One iteration of the loop of Plan.update, for the entry (k, ref) of the
\* source plan: the mapping branch, then the list branch, whose condition
\* reads the undefined name v2.
UpdateEntry(st, p, k, ref) ==
  LET v == st.heap[ref]
  IN  IF v.form = "dict"
        THEN IF DictHas(st.kwds[p], k)
               THEN UpdateMapping(st, p, k, v)
               ELSE Ok([st.kwds EXCEPT ![p] = DictSet(@, k, ref)], st.heap)
        ELSE Raise(st, "NameError")

RECURSIVE UpdateLoop(_, _, _, _)
\* for k, v in plan.kwds.items(): the entries of the source from the i-th on.
UpdateLoop(st, p, q, i) ==
  IF i > Len(st.kwds[q]) THEN Ok(st.kwds, st.heap)
  ELSE LET r == UpdateEntry(st, p, st.kwds[q][i].key, st.kwds[q][i].val)
       IN  IF r.err # "none" THEN r
           ELSE UpdateLoop([kwds |-> r.kwds, heap |-> r.heap], p, q, i + 1)

\* Plan.update(self, plan), self being plan p; plan is the value v, which is
\* the Plan object q when it is a plan.
Plan_update(st, p, v, q) ==
  IF isinstance_Plan(v) THEN UpdateLoop(st, p, q, 1) ELSE NotAPlan(st)

\* Plan.format: the entities that are neither variables nor outputs.
Plan_format(p) ==
  LET shown == SelectSeq(Plan_items(p), LAMBDA it : it.type \notin {"variable", "output"})
  IN  StripNewlines(JoinBlank([i \in 1..Len(shown) |-> Item_format(shown[i])]))

\* format_vars with the filter of format_outs negated.
Plan_format_vars_NotOutput(p) ==
  LET shown == SelectSeq(Plan_items(p), LAMBDA it : it.type # "output")
  IN  StripNewlines(JoinBlank([i \in 1..Len(shown) |-> Item_format(shown[i])]))

\* Plan.format_vars
Plan_format_vars(p) ==
  LET shown == SelectSeq(Plan_items(p), LAMBDA it : it.type = "variable")
  IN  StripNewlines(JoinBlank([i \in 1..Len(shown) |-> Item_format(shown[i])]))

\* Plan.format_outs
Plan_format_outs(p) ==
  LET shown == SelectSeq(Plan_items(p), LAMBDA it : it.type = "output")
  IN  StripNewlines(JoinBlank([i \in 1..Len(shown) |-> Item_format(shown[i])]))

-----------------------------------------------------------------------------
(* Behaviours.                                                             *)

NoValue == [cls |-> "NoneType"]

NoCall == [fn |-> "none"]

Init ==
  /\ kwds = [p \in Plans |-> <<>>]
  /\ heap = <<>>
  /\ last = [op |-> "init", plan |-> "A", arg |-> NoValue, src |-> "A", err |-> "none"]
  /\ old = [kwds |-> [p \in Plans |-> <<>>], heap |-> <<>>]
  /\ nops = 0
  /\ call = NoCall

Finish(r, op, p, arg, src) ==
  /\ call' = call
  /\ kwds' = r.kwds
  /\ heap' = r.heap
  /\ last' = [op |-> op, plan |-> p, arg |-> arg, src |-> src, err |-> r.err]
  /\ old' = Here
  /\ nops' = nops + 1

\* plan.add(item) with an entity
Add(p, item) ==
  /\ nops < MaxOps
  /\ Finish(Plan_add(Here, p, item), "add", p, item, p)

\* plan.add(value) with a value that is not an entity
AddNonEntity(p, v) ==
  /\ nops < MaxOps
  /\ Finish(Plan_add(Here, p, v), "add", p, v, p)

\* p.update(q) with a plan
Update(p, q) ==
  /\ nops < MaxOps
  /\ Finish(Plan_update(Here, p, PlanValue, q), "update", p, PlanValue, q)

\* p.update(value) with a value that is not a plan
UpdateNonPlan(p, v) ==
  /\ nops < MaxOps
  /\ Finish(Plan_update(Here, p, v, p), "update", p, v, p)

Next ==
  \/ \E p \in Plans, item \in Entities : Add(p, item)
  \/ \E p \in Plans, v \in NonEntities : AddNonEntity(p, v)
  \/ \E p \in Plans, q \in Plans : Update(p, q)
  \/ \E p \in Plans, v \in NonPlans : UpdateNonPlan(p, v)

Spec == Init /\ [][Next]_vars

-----------------------------------------------------------------------------
(* Attribute access on entities and reference tokens.                      *)

\* Depth of chained attribute access on a reference token.
MaxChain == 2

Return(v) == [err |-> "none", value |-> v]

Throw(e) == [err |-> e, value |-> NoValue]

\* The names holding the double-underscore prefix: attr.startswith("__").
DunderNames == {"__iter__", "__class__"}

startswith__(attr) == attr \in DunderNames

\* The attributes Item.__init__ sets on the instance.
InstanceAttrs == {"type", "args", "all_args", "kwds", "items"}

\* The attributes an entity gets from its class and from object.
ClassAttrs(cls) ==
  {"format", "__class__"} \cup (IF cls = "Resource" THEN {"asterisk"} ELSE {})

\* The attributes a str has among the names used here.
StrAttrs == {"format", "count", "__class__", "__iter__"}

\* The value of an attribute found without __getattr__.
Member(obj, name) ==
  IF name = "type" /\ isinstance_Item(obj) THEN Str(obj.type)
  ELSE [cls |-> "member", owner |-> obj.cls, name |-> name]

RECURSIVE JoinSep(_, _)
\* sep.join(strs)
JoinSep(sep, strs) ==
  IF strs = <<>> THEN ""
  ELSE IF Len(strs) = 1 THEN strs[1]
  ELSE strs[1] \o sep \o JoinSep(sep, Tail(strs))

\* Item.__getattr__ with the resource's reference built from its kind.
Item__getattr__KindPrefix(item, attr) ==
  IF DictHas(item.kwds, attr) THEN Return(DictGet(item.kwds, attr))
  ELSE IF startswith__(attr) THEN Throw("AttributeError")
  ELSE Return(Attribute(item.type \o "." \o attr))

\* Item.__getattr__ with the named arguments looked at last.
Item__getattr__ReferenceFirst(item, attr) ==
  IF startswith__(attr) THEN Throw("AttributeError")
  ELSE IF item.cls = "Resource" /\ item.args # <<>>
    THEN Return(Attribute(str(item.args[1]) \o "." \o attr))
  ELSE IF item.cls = "Module" THEN Return(Attribute("module." \o attr))
  ELSE IF item.cls = "Variable" THEN Return(Attribute("var." \o attr))
  ELSE IF item.cls = "Locals" THEN Return(Attribute("local." \o attr))
  ELSE IF DictHas(item.kwds, attr) THEN Return(DictGet(item.kwds, attr))
  ELSE Throw("AttributeError")

\* Item.__getattr__(self, attr)
Item__getattr__(item, attr) ==
  IF DictHas(item.kwds, attr) THEN Return(DictGet(item.kwds, attr))
  ELSE IF startswith__(attr) THEN Throw("AttributeError")
  ELSE IF item.cls = "Resource"
    THEN IF item.args = <<>> THEN Throw("IndexError")
         ELSE Return(Attribute(str(item.args[1]) \o "." \o attr))
  ELSE IF item.cls = "Module" THEN Return(Attribute("module." \o attr))
  ELSE IF item.cls = "Variable" THEN Return(Attribute("var." \o attr))
  ELSE IF item.cls = "Locals" THEN Return(Attribute("local." \o attr))
  ELSE IF item.cls = "Data"
    THEN IF \E i \in 1..Len(item.args) : ~isinstance_str(item.args[i])
           THEN Throw("TypeError")
           ELSE Return(Attribute("data."
                  \o JoinSep(".", [i \in 1..Len(item.args) |-> item.args[i].value])
                  \o "." \o attr))
  ELSE Throw("AttributeError")

\* Attribute.__getattr__ that drops the token it is read from.
Attribute__getattr__NoAppend(tok, name) == Return(Attribute(name))

\* Attribute.__getattr__(self, name)
Attribute__getattr__(tok, name) == Return(Attribute(tok.value \o "." \o name))

\* obj.name: __getattr__ runs only when the usual lookup finds nothing.
getattr(obj, name) ==
  IF isinstance_Item(obj)
    THEN IF name \in InstanceAttrs \cup ClassAttrs(obj.cls)
           THEN Return(Member(obj, name))
           ELSE Item__getattr__(obj, name)
    ELSE IF name \in StrAttrs THEN Return(Member(obj, name))
         ELSE Attribute__getattr__(obj, name)

\* The entities attributes are read from: every class, a generic Item tagged
\* with a kind, without and with labels, without and with named arguments.
RefLabels == {<<>>, <<"foo">>, <<"foo", "n">>}

RefKwds ==
  { <<>>,
    <<[key |-> "x", val |-> Str("1")]>>,
    <<[key |-> "type", val |-> Str("string")], [key |-> "x", val |-> Str("2")]>> }

RefEntities ==
  {BaseItem(c, Labels(ls), kw) : c \in ItemClasses \ {"Item"}, ls \in RefLabels, kw \in RefKwds}
    \cup {Item__init__("Item", t, Labels(ls), kw) :
            t \in {"resource", "provider"}, ls \in RefLabels, kw \in RefKwds}

AttrNames == {"bar", "foo", "x", "type", "format", "__iter__", "__class__"}

ChainNames == {"baz", "count"}

\* entity.name
GetAttr(item, name) ==
  /\ call = NoCall
  /\ call' = [fn |-> "getattr", obj |-> item, name |-> name, depth |-> 0,
              res |-> getattr(item, name)]
  /\ UNCHANGED planVars

\* token.name, on the token the last access returned
ChainAttr(name) ==
  /\ call.fn = "getattr" /\ call.res.err = "none" /\ call.res.value.cls = "Attribute"
  /\ call.depth < MaxChain
  /\ call' = [fn |-> "getattr", obj |-> call.res.value, name |-> name,
              depth |-> call.depth + 1, res |-> getattr(call.res.value, name)]
  /\ UNCHANGED planVars

-----------------------------------------------------------------------------
(* Formatting of entities and values.                                      *)

\* Longest list, and longest run of arguments after a function's name.
MaxLen == 2

\* Most constructor arguments of a block entity.
MaxArgs == 3

\* The sequences over S of length at most n.
SeqsUpTo(S, n) == UNION {[1..k -> S] : k \in 0..n}

\* The error formatting v ends with, "none" when it returns a text:
\* format_function reads `result` before any branch has set it when the first
\* argument after the name matches no branch, and value.args[0] needs a
\* positional argument.
RECURSIVE FormatError(_)
FormatError(v) ==
  LET first(S) == IF S = {} THEN "none" ELSE CHOOSE e \in S : TRUE
      among(vs) == first({FormatError(vs[i]) : i \in 1..Len(vs)} \ {"none"})
  IN  IF isinstance_Function(v)
        THEN IF v.args = <<>> THEN "IndexError"
             ELSE IF Len(v.all_args) > 1 /\ ~FunctionArgHandled(v.all_args[2])
               THEN "UnboundLocalError"
             ELSE first({among(SelectSeq(Tail(v.all_args), FunctionArgHandled)),
                         among(DictValues(v.kwds))} \ {"none"})
      ELSE IF isinstance_Item(v)
        THEN first({among(v.items), among(DictValues(v.kwds))} \ {"none"})
      ELSE IF isinstance_dict(v) THEN among(DictValues(v.value))
      ELSE IF isinstance_list(v) THEN among(v.value)
      ELSE "none"

\* A text as a value.
Text(lines) == [cls |-> "text", value |-> lines]

\* A str holding several lines.
MultiLineStr(lines) == [cls |-> "str", value |-> lines]

\* TFBlock.__init__(self, value=''): it takes no keyword argument.
TFBlock__init__(value, kwargs) ==
  IF kwargs # <<>> THEN Throw("TypeError") ELSE Return(TFBlock(value))

\* Scalar values.
Scalars == {Str("a"), Int(1), Bool(TRUE), Raw("r"), Quote("q")}

\* A raw-text block written indented, after a leading newline.
SomeBlock == TFBlock(<<Line(0, ""), Line(4, "b {"), Line(6, "c = 1"), Line(4, "}")>>)

\* Entities used as child blocks and as values.
SomeBackend == BaseItem("Backend", <<Str("s3")>>, <<[key |-> "k", val |-> Quote("q")]>>)
SomeConnection == BaseItem("Connection", <<>>, <<[key |-> "user", val |-> Quote("q")]>>)
SomeVariable == BaseItem("Variable", <<Str("v")>>, <<[key |-> "type", val |-> Str("string")]>>)
SomeData == BaseItem("Data", <<Str("T"), Str("N")>>, <<[key |-> "name", val |-> Str("a")]>>)
SomeFunction == BaseItem("Function", <<Str("g")>>, <<>>)

\* Lists of scalars, mappings, and lists and mappings holding them.
FlatLists == {List(e) : e \in SeqsUpTo(Scalars, MaxLen)}

Dicts == {Dict(<<>>)} \cup {Dict(<<[key |-> "k", val |-> v]>>) : v \in Scalars}

NestedLists ==
  {List(e) : e \in SeqsUpTo({List(<<>>), List(<<Int(1)>>), Dict(<<>>), Int(2)}, MaxLen)}

DeepValues ==
  { List(<<List(<<List(<<>>)>>)>>),
    Dict(<<[key |-> "k", val |-> List(<<>>)]>>),
    Dict(<<[key |-> "k", val |-> Dict(<<[key |-> "j", val |-> List(<<>>)]>>)]>>),
    List(<<Dict(<<[key |-> "k", val |-> List(<<>>)]>>), Quote("q")>>) }

Values ==
  Scalars \cup FlatLists \cup Dicts \cup NestedLists \cup DeepValues
    \cup {SomeBlock, SomeBackend, SomeConnection, SomeVariable, SomeData, SomeFunction}

\* Function entities: a name, then arguments of every kind, with and without
\* named arguments.
FunctionArgs ==
  Scalars \cup {SomeBlock, SomeData, SomeFunction,
                Dict(<<[key |-> "k", val |-> Int(1)]>>), List(<<Int(1)>>)}

Functions ==
  {BaseItem("Function", <<Str("f")>> \o a, kw) :
     a \in SeqsUpTo(FunctionArgs, MaxLen),
     kw \in {<<>>, <<[key |-> "k", val |-> Str("a")]>>}}

\* Block entities: labels and child blocks in any order, and named arguments
\* of several kinds.
BlockArgs == {Str("foo"), Str("n"), SomeBackend, SomeBlock}

BlockKwds ==
  { <<>>,
    <<[key |-> "x", val |-> Quote("q")]>>,
    <<[key |-> "l", val |-> List(<<>>)], [key |-> "x", val |-> Int(1)]>>,
    <<[key |-> "connection", val |-> SomeConnection], [key |-> "d", val |-> SomeData]>> }

Blocks_ ==
  {BaseItem(c, a, kw) :
     c \in {"Resource", "Terraform", "Locals"}, a \in SeqsUpTo(BlockArgs, MaxArgs),
     kw \in BlockKwds}

\* Templates of raw-text blocks: every line is its indentation and its parts,
\* a part being literal text or a placeholder name in braces.
Lit(s) == [ph |-> FALSE, s |-> s]
Ph(name) == [ph |-> TRUE, s |-> name]

Templates ==
  { <<[ind |-> 0, parts |-> <<Lit("v = "), Ph("name")>>]>>,
    <<[ind |-> 0, parts |-> <<>>],
      [ind |-> 4, parts |-> <<Lit("b {")>>],
      [ind |-> 6, parts |-> <<Lit("v = \""), Ph("name"), Lit("\"")>>],
      [ind |-> 4, parts |-> <<Lit("}")>>]>>,
    <<[ind |-> 2, parts |-> <<Lit("c = 1")>>]>> }

TemplateKwargs ==
  { <<>>, <<[key |-> "name", val |-> Str("a")]>>, <<[key |-> "name", val |-> Int(1)]>>,
    <<[key |-> "name", val |-> Quote("q")]>>, <<[key |-> "name", val |-> Bool(TRUE)]>> }

\* The template as written: a placeholder is its name in braces.
Written(tpl) ==
  [i \in 1..Len(tpl) |->
     Line(tpl[i].ind,
          JoinStr([j \in 1..Len(tpl[i].parts) |->
                     IF tpl[i].parts[j].ph THEN "{" \o tpl[i].parts[j].s \o "}"
                     ELSE tpl[i].parts[j].s]))]

\* value.format() of an entity, a function or a raw-text block
Format(v) ==
  /\ call = NoCall
  /\ call' = [fn |-> "format", obj |-> v,
              res |-> IF FormatError(v) # "none" THEN Throw(FormatError(v))
                      ELSE Return(Text(format_method(v)))]
  /\ UNCHANGED planVars

\* format_any_obj(key, value)
FormatValue(key, v) ==
  /\ call = NoCall
  /\ call' = [fn |-> "format_any_obj", key |-> key, obj |-> v,
              res |-> IF FormatError(v) # "none" THEN Throw(FormatError(v))
                      ELSE Return(Text(format_any_obj(key, v)))]
  /\ UNCHANGED planVars

\* str(entity), repr(entity)
Stringify(item) ==
  /\ call = NoCall
  /\ call' = [fn |-> "str", obj |-> item, res |-> Return(Item__str__(item))]
  /\ UNCHANGED planVars

\* TFBlock(template, **kwargs), then format() of the block
NewTFBlock(tpl, kwargs) ==
  /\ call = NoCall
  /\ call' = [fn |-> "TFBlock", tpl |-> tpl, kwargs |-> kwargs,
              res |-> TFBlock__init__(Written(tpl), kwargs)]
  /\ UNCHANGED planVars

\* block == text, for the block the last call built
CompareTFBlock(lines) ==
  /\ call.fn = "TFBlock" /\ call.res.err = "none"
  /\ call' = [fn |-> "TFBlock.__eq__", obj |-> call.res.value, other |-> MultiLineStr(lines),
              res |-> Return(Bool(TFBlock__eq__(call.res.value, MultiLineStr(lines))))]
  /\ UNCHANGED planVars

\* The texts a raw-text block is compared with.
ComparedTexts ==
  { <<"v = {name}">>, <<"b {", "  c = 1", "}">>, <<"c = 1">>, <<"  c = 1">>,
    <<"", "    b {", "      v = \"{name}\"", "    }">>, <<"b {", "  v = \"{name}\"", "}">> }

\* The classes entities are constructed of, and their constructor arguments:
\* labels, numbers, entities and raw-text blocks in any order.
ConstructedClasses == {"Resource", "Terraform", "Function", "Item"}

ConstructorArgs == SeqsUpTo(BlockArgs \cup {Int(1)}, MaxArgs)

\* C(*all_args, **kwds) for a subclass C of BaseItem, Item("provider",
\* *all_args, **kwds) for Item itself
NewItem(cls, all_args, kw) ==
  /\ call = NoCall
  /\ call' = [fn |-> "Item", all_args |-> all_args,
              res |-> Return(IF cls = "Item"
                               THEN Item__init__("Item", "provider", all_args, kw)
                               ELSE BaseItem(cls, all_args, kw))]
  /\ UNCHANGED planVars

NextCalls ==
  \/ \E item \in RefEntities, name \in AttrNames : GetAttr(item, name)
  \/ \E name \in ChainNames : ChainAttr(name)
  \/ \E item \in RefEntities \cup {SomeData} : Stringify(item)
  \/ \E v \in Functions \cup Blocks_ \cup {SomeBlock} : Format(v)
  \/ \E key \in {"", "k"}, v \in Values : FormatValue(key, v)
  \/ \E tpl \in Templates, kwargs \in TemplateKwargs : NewTFBlock(tpl, kwargs)
  \/ \E lines \in ComparedTexts : CompareTFBlock(lines)
  \/ \E cls \in ConstructedClasses, all_args \in ConstructorArgs, kw \in {<<>>, Kwds("1")} :
       NewItem(cls, all_args, kw)

\* The entity and value layer: calls of its functions on bounded inputs.
SpecCalls == Init /\ [][NextCalls]_vars

-----------------------------------------------------------------------------
(* Vocabulary of the properties.                                           *)

\* plan.items of plan p before the last operation.
Before(p) == ItemsIn(old.kwds[p], old.heap)

\* The last operation was plan.add of an entity.
AddedEntity == last.op = "add" /\ isinstance_Item(last.arg)

\* The last operation was target.update(source) with a plan.
MergedPlan == last.op = "update" /\ isinstance_Plan(last.arg)

\* Entity x occurs in the sequence s before entity y does.
Precedes(s, x, y) == \E i, j \in 1..Len(s) : i < j /\ s[i] = x /\ s[j] = y

\* The entities of s whose kind is k, in the order of s.
OfKind(s, k) == SelectSeq(s, LAMBDA it : it.type = k)

\* The indices of s holding an entity of the kind and path of y.
SamePath(s, y) == {i \in 1..Len(s) : s[i].type = y.type /\ s[i].args = y.args}

\* The blocks of the entities of s, joined by one blank line.
Blocks(s) == JoinBlank([i \in 1..Len(s) |-> Item_format(s[i])])

\* Text t contains the block b as consecutive lines.
ContainsBlock(t, b) ==
  \E i \in 1..Len(t) : i + Len(b) - 1 <= Len(t) /\ SubSeq(t, i, i + Len(b) - 1) = b

\* The entries stored for kind k in a plan whose kwds is kw, in heap h.
Stored(kw, h, k) == IF DictHas(kw, k) THEN h[DictGet(kw, k)].entries ELSE <<>>

\* The form of the storage of kind k, "none" when the kind is not registered.
FormOf(kw, h, k) == IF DictHas(kw, k) THEN h[DictGet(kw, k)].form ELSE "none"

-----------------------------------------------------------------------------
(* Plan.add                                                                *)

\* C1: labelled entities are keyed by their full positional-argument path:
\* adding a labelled entity y to a plan that holds a labelled entity x of the
\* same kind and a different path leaves both in plan.items, x before y.
C1_KeyedByFullPath ==
  AddedEntity =>
    LET y == last.arg
        b == Before(last.plan)
    IN  \A i \in 1..Len(b) :
          (b[i].type = y.type /\ b[i].args # <<>> /\ y.args # <<>> /\ b[i].args # y.args)
            => Precedes(Plan_items(last.plan), b[i], y)

\* C2, as claimed: adding an entity y to a plan that holds an entity of the
\* same kind and the same positional-argument path leaves exactly one entity
\* of that kind and path in plan.items, and it is y.
C2_ExactlyOnePerPath ==
  AddedEntity =>
    LET y == last.arg
        a == Plan_items(last.plan)
    IN  SamePath(Before(last.plan), y) # {}
          => Cardinality(SamePath(a, y)) = 1 /\ \A i \in SamePath(a, y) : a[i] = y

\* C2, amended: the same for entities with at least one positional argument.
C2_ExactlyOnePerLabelledPath ==
  (AddedEntity /\ last.arg.args # <<>>) =>
    LET y == last.arg
        a == Plan_items(last.plan)
    IN  SamePath(Before(last.plan), y) # {}
          => /\ last.err = "none"
             /\ Cardinality(SamePath(a, y)) = 1
             /\ \A i \in SamePath(a, y) : a[i] = y

\* C2 witness: a labelled entity was added to a plan that held an entity of
\* the same kind and path with another content.
C2_Witness ==
  /\ AddedEntity /\ last.arg.args # <<>>
  /\ \E i \in SamePath(Before(last.plan), last.arg) : Before(last.plan)[i] # last.arg

\* The entities of plan.items are grouped by kind.
GroupedByKind(s) ==
  \A i, j, k \in 1..Len(s) : (i < j /\ j < k /\ s[i].type = s[k].type) => s[j].type = s[i].type

\* The index in s of the entity stored under the key of y, 0 if there is none.
KeyIndex(s, y) ==
  IF y.args # <<>> /\ \E i \in 1..Len(s) : s[i].type = y.type /\ s[i].args[1] = y.args[1]
    THEN CHOOSE i \in 1..Len(s) : s[i].type = y.type /\ s[i].args[1] = y.args[1]
    ELSE 0

\* The index in s of the last entity of kind k, 0 if there is none.
LastOfKind(s, k) ==
  IF \E i \in 1..Len(s) : s[i].type = k
    THEN CHOOSE i \in 1..Len(s) : s[i].type = k /\ \A j \in (i + 1)..Len(s) : s[j].type # k
    ELSE 0

-----------------------------------------------------------------------------
(* Renderings                                                              *)

\* The fixed kind priority of the grouped rendering.
KindPriority == <<"terraform", "provider", "locals", "resource", "module">>

\* C4: for a plan holding only entities of the kinds terraform, provider,
\* locals, resource and module, Plan.format() is the blocks of its entities
\* taken kind by kind in that fixed order, joined by one blank line.
C4_FixedKindOrder ==
  \A p \in Plans :
    LET s == Plan_items(p)
    IN  (\A i \in 1..Len(s) : \E n \in 1..Len(KindPriority) : s[i].type = KindPriority[n])
          => Plan_format(p) =
               Blocks(chain([n \in 1..Len(KindPriority) |-> OfKind(s, KindPriority[n])]))

\* C5: Plan.format() contains the block of no entity of kind variable, output
\* or data.
C5_NoVariableOutputData ==
  \A p \in Plans :
    LET s == Plan_items(p)
    IN  \A i \in 1..Len(s) :
          s[i].type \in {"variable", "output", "data"}
            => ~ContainsBlock(Plan_format(p), Item_format(s[i]))

\* The text of the entities stored for kind k in plan p: their blocks in
\* storage order, one blank line between two blocks, and the empty text when
\* the plan stores none.
KindText(p, k) ==
  LET c == IF DictHas(kwds[p], k) THEN unpack(heap[DictGet(kwds[p], k)]) ELSE <<>>
  IN  IF c = <<>> THEN EmptyText ELSE Blocks(c)

\* C6: format_vars renders exactly the plan's variable entities and
\* format_outs exactly its output entities, in accumulation order, joined by
\* one blank line; the text is empty when the plan holds none.
C6_PerKindExtraction ==
  \A p \in Plans :
    /\ Plan_format_vars(p) = KindText(p, "variable")
    /\ Plan_format_outs(p) = KindText(p, "output")

\* C6 witness: a plan holds two variables and an output.
C6_Witness ==
  \E p \in Plans :
    /\ Len(OfKind(Plan_items(p), "variable")) = 2
    /\ Len(OfKind(Plan_items(p), "output")) = 1

-----------------------------------------------------------------------------
(* Plan.update                                                             *)

\* C7: A.update(B) on an empty plan A raises no error and leaves
\* A.items = B.items.
C7_MergeIntoEmpty ==
  (MergedPlan /\ last.plan # last.src /\ old.kwds[last.plan] = <<>>) =>
    /\ last.err = "none"
    /\ Plan_items(last.plan) = Before(last.src)

\* C8: A.update(B) on a non-empty plan A: for every kind of B, A's mapping
\* holds A's prior entries updated with B's entries (B wins), and A's list
\* is A's prior list followed by the entries of B's list.
C8_MergeIntoNonEmpty ==
  (MergedPlan /\ last.plan # last.src /\ old.kwds[last.plan] # <<>>) =>
    \A i \in 1..Len(old.kwds[last.src]) :
      LET k     == old.kwds[last.src][i].key
          src   == Stored(old.kwds[last.src], old.heap, k)
          prior == Stored(old.kwds[last.plan], old.heap, k)
          form  == FormOf(old.kwds[last.src], old.heap, k)
      IN  FormOf(old.kwds[last.plan], old.heap, k) \in {"none", form}
            => /\ FormOf(kwds[last.plan], heap, k) = form
               /\ Stored(kwds[last.plan], heap, k) =
                    IF form = "dict" THEN DictUpdate(prior, src) ELSE prior \o src

-----------------------------------------------------------------------------
(* Errors                                                                  *)

\* C9: adding a value that is not an entity raises an error and leaves the
\* plans' storage, hence plan.items, as it was.
C9_AddNonEntityFails ==
  (last.op = "add" /\ ~isinstance_Item(last.arg)) =>
    /\ last.err = "ValueError"
    /\ kwds = old.kwds /\ heap = old.heap
    /\ Plan_items(last.plan) = Before(last.plan)

\* C9 witness: a non-entity was added to a plan that holds entities.
C9_Witness ==
  /\ last.op = "add" /\ ~isinstance_Item(last.arg)
  /\ Plan_items(last.plan) # <<>>

\* C10: Plan.update given a value that is not a plan raises an error and
\* leaves the target plan as it was.
C10_UpdateNonPlanFails ==
  (last.op = "update" /\ ~isinstance_Plan(last.arg)) =>
    /\ last.err = "Exception"
    /\ kwds = old.kwds /\ heap = old.heap
    /\ Plan_items(last.plan) = Before(last.plan)

\* C10 witness: a non-plan was merged into a plan that holds entities.
C10_Witness ==
  /\ last.op = "update" /\ ~isinstance_Plan(last.arg)
  /\ Plan_items(last.plan) # <<>>

-----------------------------------------------------------------------------
(* Attribute access                                                        *)

\* The name is unknown to the entity: no named argument, no reserved name, and
\* no attribute of the entity object or of its class.
UnknownTo(item, name) ==
  /\ ~DictHas(item.kwds, name)
  /\ ~startswith__(name)
  /\ name \notin InstanceAttrs \cup ClassAttrs(item.cls)

\* The last call read an attribute of an entity.
ReadOfEntity == call.fn = "getattr" /\ call.depth = 0

\* The last call read an attribute of a reference token.
ReadOfToken == call.fn = "getattr" /\ call.depth > 0

RECURSIVE DottedPath(_)
\* The labels as one dotted path.
DottedPath(labels) ==
  IF labels = <<>> THEN ""
  ELSE IF Len(labels) = 1 THEN labels[1].value
  ELSE DottedPath(SubSeq(labels, 1, Len(labels) - 1)) \o "." \o labels[Len(labels)].value

\* The kinds that have a reference rule.
ReferenceKinds == {"resource", "module", "variable", "locals", "data"}

\* C11: reading an unknown attribute a of a variable entity named v yields the
\* reference text var.v, whatever a is.
C11_VariableYieldsOwnReference ==
  (/\ ReadOfEntity /\ call.obj.type = "variable" /\ call.obj.args # <<>>
   /\ UnknownTo(call.obj, call.name)) =>
    call.res = Return(Attribute("var." \o call.obj.args[1].value))

C14_AttributeErrorExactly ==
  (/\ ReadOfEntity /\ ~DictHas(call.obj.kwds, call.name)
   /\ call.name \notin InstanceAttrs \cup ClassAttrs(call.obj.cls)) =>
    IF startswith__(call.name) \/ call.obj.type \notin ReferenceKinds
      THEN call.res.err = "AttributeError"
      ELSE call.res.err = "none" /\ call.res.value.cls = "Attribute"

-----------------------------------------------------------------------------
(* Formatting                                                              *)

\* The text the last call returned.
Returned == call.res.value.value

\* C16: a data entity with labels (T, N) renders as the reference text
\* data.T.N when it is stringified and when it is the value of a named
\* argument, of a formatted value or of another entity, and not as its block.
C16_DataInterpolation ==
  /\ (call.fn = "str" /\ call.obj.cls = "Data" /\ Len(call.obj.args) = 2) =>
       /\ call.res.err = "none"
       /\ Returned = "data." \o DottedPath(call.obj.args)
  /\ (call.fn = "format_any_obj" /\ call.obj.cls = "Data" /\ call.key # "") =>
       /\ call.res.err = "none"
       /\ Returned = <<call.key \o " = data." \o DottedPath(call.obj.args)>>
  /\ (/\ call.fn = "format" /\ isinstance_Item(call.obj) /\ ~isinstance_Function(call.obj)
      /\ DictHas(call.obj.kwds, "d") /\ DictGet(call.obj.kwds, "d").cls = "Data") =>
       /\ call.res.err = "none"
       /\ \E i \in 1..Len(Returned) :
            Returned[i] = IDENTATION \o "d = data."
                            \o DottedPath(DictGet(call.obj.kwds, "d").args)

RECURSIVE QuotedLabels(_)
\* The labels, each preceded by a space and put in double quotes.
QuotedLabels(labels) ==
  IF labels = <<>> THEN ""
  ELSE QuotedLabels(SubSeq(labels, 1, Len(labels) - 1))
         \o " \"" \o labels[Len(labels)].value \o "\""

\* A text one level deeper: two spaces before every line that is not blank.
Deeper(t) == [i \in 1..Len(t) |-> IF t[i] = "" THEN "" ELSE "  " \o t[i]]

RECURSIVE OneAfterAnother(_)
\* The lines of the texts, in the order of the texts.
OneAfterAnother(texts) ==
  IF texts = <<>> THEN <<>>
  ELSE OneAfterAnother(SubSeq(texts, 1, Len(texts) - 1)) \o texts[Len(texts)]

\* The last call formatted a block entity.
FormatOfBlock ==
  /\ call.fn = "format" /\ isinstance_Item(call.obj) /\ ~isinstance_Function(call.obj)
  /\ call.res.err = "none"

\* C17: the text of Item.format() is the header line (the kind, the positional
\* arguments each in double quotes and separated by spaces, then " {"), the
\* child blocks in their order, the named arguments in their order, every one
\* of them one level deeper than the header, and a last line "}".
C17_FormatLayout ==
  FormatOfBlock =>
    LET item == call.obj
        childLines ==
          OneAfterAnother([i \in 1..Len(item.items) |-> Deeper(format_method(item.items[i]))])
        namedLines ==
          OneAfterAnother([i \in 1..Len(item.kwds) |->
                             Deeper(format_any_obj(item.kwds[i].key, item.kwds[i].val))])
    IN  /\ Returned[1] = item.type \o QuotedLabels(item.args) \o " {"
        /\ item.args = <<>> => Returned[1] = item.type \o " {"
        /\ Returned[Len(Returned)] = "}"
        /\ Len(Returned) = 2 + Len(childLines) + Len(namedLines)
        /\ SubSeq(Returned, 2, 1 + Len(childLines)) = childLines
        /\ SubSeq(Returned, 2 + Len(childLines), Len(Returned) - 1) = namedLines

\* C17 witness: a resource with two labels, a child block between them and
\* named arguments was formatted.
C17_Witness ==
  /\ FormatOfBlock /\ call.obj.cls = "Resource"
  /\ Len(call.obj.args) = 2 /\ Len(call.obj.items) = 1 /\ Len(call.obj.kwds) = 2
  /\ call.obj.all_args[2] = SomeBlock

\* C18: Function.format() is name(arg1, ..., argN), with the named arguments
\* as one more mapping argument when there are any; every argument after the
\* name is the text the value formatter gives for it, in the original order.
C18_FunctionCallFormatting ==
  (call.fn = "format" /\ isinstance_Function(call.obj)) =>
    LET f == call.obj
        rest == Tail(f.all_args)
        rendered ==
          [i \in 1..Len(rest) |-> format_any_obj("", rest[i])]
            \o (IF f.kwds # <<>> THEN <<format_dict(f.kwds)>> ELSE <<>>)
    IN  /\ call.res.err = "none"
        /\ Returned = ConcatText(ConcatText(<<f.args[1].value \o "(">>,
                                            JoinWith(", ", rendered)), <<")">>)

\* The text of a scalar value.
ScalarText(v) ==
  CASE v.cls = "str" -> v.value
    [] v.cls = "int" -> ToString(v.value)
    [] v.cls = "bool" -> IF v.value THEN "true" ELSE "false"
    [] v.cls = "Raw" -> v.value
    [] v.cls = "Quote" -> "\"" \o v.value \o "\""

RECURSIVE EmptyListsIn(_, _, _)
\* Where the empty lists of a value are: the depth and the key of each.
EmptyListsIn(key, v, d) ==
  IF isinstance_list(v)
    THEN IF v.value = <<>> THEN {[depth |-> d, key |-> key]}
         ELSE UNION {EmptyListsIn("", v.value[i], d + 1) : i \in 1..Len(v.value)}
  ELSE IF isinstance_dict(v)
    THEN UNION {EmptyListsIn(v.value[i].key, v.value[i].val, d + 1) : i \in 1..Len(v.value)}
  ELSE {}

\* The empty lists of what the last call formatted.
EmptyListsFormatted ==
  IF call.fn = "format_any_obj" THEN EmptyListsIn(call.key, call.obj, 0)
  ELSE IF FormatOfBlock
    THEN UNION {EmptyListsIn(call.obj.kwds[i].key, call.obj.kwds[i].val, 1) :
                  i \in 1..Len(call.obj.kwds)}
  ELSE {}

\* The text holds, at this depth, an open bracket (after "key = " if the list
\* is bound to a key), a blank line and a close bracket.
HoldsEmptyList(t, e) ==
  \E i \in 1..Len(t) :
    /\ i + 2 <= Len(t)
    /\ t[i] = Spaces(2 * e.depth) \o (IF e.key # "" THEN e.key \o " = " ELSE "") \o "["
    /\ t[i + 1] = ""
    /\ t[i + 2] \in {Spaces(2 * e.depth) \o "]", Spaces(2 * e.depth) \o "],"}

\* C19: an empty list, at any depth and bound to a key or not, is formatted
\* as an open bracket, a blank line and a close bracket; a list of n > 0
\* scalars is formatted as n lines between the brackets, a comma after each
\* but the last.
C19_ListEncoding ==
  /\ (call.fn \in {"format_any_obj", "format"} /\ call.res.err = "none") =>
       \A e \in EmptyListsFormatted : HoldsEmptyList(Returned, e)
  /\ (call.fn = "format_any_obj" /\ call.obj = List(<<>>)) =>
       Returned = <<(IF call.key # "" THEN call.key \o " = " ELSE "") \o "[", "", "]">>
  /\ (call.fn = "format_any_obj" /\ call.obj \in FlatLists /\ call.obj.value # <<>>) =>
       LET elems == call.obj.value
           n == Len(elems)
       IN  /\ Len(Returned) = n + 2
           /\ Returned[1] = (IF call.key # "" THEN call.key \o " = " ELSE "") \o "["
           /\ \A i \in 1..(n - 1) : Returned[i + 1] = "  " \o ScalarText(elems[i]) \o ","
           /\ Returned[n + 1] = "  " \o ScalarText(elems[n])
           /\ Returned[n + 2] = "]"

\* C19 witness: an empty list two lists deep and bound to a key was formatted.
C19_Witness ==
  /\ call.fn = "format_any_obj" /\ call.key = "k"
  /\ call.obj = List(<<List(<<List(<<>>)>>)>>)
  /\ call.res.err = "none"

\* The template with every placeholder that has a keyword value replaced by
\* the value formatter's text of that value.
Substituted(tpl, kwargs) ==
  [i \in 1..Len(tpl) |->
     Line(tpl[i].ind,
          JoinStr([j \in 1..Len(tpl[i].parts) |->
                     LET part == tpl[i].parts[j]
                     IN  IF part.ph /\ DictHas(kwargs, part.s)
                           THEN ScalarText(DictGet(kwargs, part.s))
                         ELSE IF part.ph THEN "{" \o part.s \o "}"
                         ELSE part.s]))]

\* The template holds a placeholder that has a keyword value.
HasPlaceholderFor(tpl, kwargs) ==
  \E i \in 1..Len(tpl) : \E j \in 1..Len(tpl[i].parts) :
    tpl[i].parts[j].ph /\ DictHas(kwargs, tpl[i].parts[j].s)

\* C20: a TFBlock built from a template holding {name} and a keyword value for
\* name renders with the placeholder replaced by the text of the value; a
\* TFBlock equals a plain string exactly when its rendered text is the string.
C20_PlaceholderSubstitution ==
  /\ (call.fn = "TFBlock" /\ HasPlaceholderFor(call.tpl, call.kwargs)) =>
       /\ call.res.err = "none"
       /\ TFBlock_format(call.res.value)
            = TFBlock_format(TFBlock(Substituted(call.tpl, call.kwargs)))
  /\ call.fn = "TFBlock.__eq__" =>
       Returned = (TFBlock_format(call.obj) = call.other.value)

-----------------------------------------------------------------------------
(* Construction                                                            *)

\* The k-th smallest element of a set of numbers.
Nth(S, k) == CHOOSE i \in S : Cardinality({j \in S : j < i}) = k - 1

\* s is the elements of t at the positions P, in the order of t.
IsSubsequenceAt(s, t, P) ==
  /\ Len(s) = Cardinality(P)
  /\ \A k \in 1..Len(s) : s[k] = t[Nth(P, k)]

\* C21: for an entity built from any sequence of constructor arguments, args
\* is the constructor arguments that are neither entities nor raw-text blocks
\* and items is those that are, each in the original order; every position
\* of all_args is in exactly one of the two, and all_args is the sequence
\* given.
C21_ConstructionPartition ==
  call.fn = "Item" =>
    LET item == call.res.value
        given == call.all_args
        blocks == {i \in 1..Len(given) :
                     given[i].cls \in ItemClasses \cup {"TFBlock"}}
        others == (1..Len(given)) \ blocks
    IN  /\ call.res.err = "none"
        /\ item.all_args = given
        /\ IsSubsequenceAt(item.args, given, others)
        /\ IsSubsequenceAt(item.items, given, blocks)
        /\ Len(item.args) + Len(item.items) = Len(given)

\* C21 witness: an entity was built from a label, a child entity and a label
\* again, in that order.
C21_Witness ==
  /\ call.fn = "Item" /\ Len(call.all_args) = 3
  /\ call.all_args[1] = Str("foo") /\ call.all_args[2] = SomeBackend
  /\ call.all_args[3] = Str("n")
  /\ call.res.err = "none"

-----------------------------------------------------------------------------
(* Plan.add after earlier operations, and merged plans                     *)

\* C22: Plan.add of an entity raises no error and stores the entity, whatever
\* was added or merged before; in particular when the plan holds entities of
\* the same kind that have positional arguments and the new one has none, or
\* the reverse.
C22_AddAlwaysSucceeds ==
  AddedEntity =>
    /\ last.err = "none"
    /\ \E i \in 1..Len(Plan_items(last.plan)) : Plan_items(last.plan)[i] = last.arg

\* C23: target.update(source) leaves source.items as it was, and an add to
\* one plan leaves the items of every other plan as they were, also after the
\* plans were merged.
C23_MergedPlansIndependent ==
  /\ (MergedPlan /\ last.src # last.plan) => Plan_items(last.src) = Before(last.src)
  /\ AddedEntity => \A q \in Plans \ {last.plan} : Plan_items(q) = Before(q)

====
